---- MODULE Spec2Model ----
(***************************************************************************)
(* Model of the WhatsApp connection lifecycle manager and the message      *)
(* delivery / status-tracking pipeline of wa_prod.                         *)
(*                                                                         *)
(*   controllers/messages.js      (src/unnamed/part_000, lines 381-1189)   *)
(*   controllers/updateStatus.js  (src/src/controllers/subscription.js,    *)
(*                                 lines 506-753)                          *)
(*   controllers/qrcode.js        (src/unnamed/part_000, lines 1-380)      *)
(*   controllers/schedule.js      (src/unnamed/part_008, lines 1-291)      *)
(*                                                                         *)
(* Node runs every handler on one thread; a handler is suspended at each   *)
(* await.  Every action below is the code between two awaits.              *)
(***************************************************************************)
EXTENDS Integers, Sequences, FiniteSets, TLC

\* ------------------------------------------------------------------ bounds
MaxRows == 3
MaxEvents == 1
MaxTime == 2
MaxQuota == 3
MaxCalls == 2
MaxSocks == 2
MaxTicks == 2
ScenarioRemaining == 5
MaxSched == 2

\* --------------------------------------------------------- program constants
MAX_RETRIES == 3
retries == 3
LIMIT == 50

Tenants == {"t1"}

\* MESSAGE_STATUS, the ENUM of media_messages.message_status
MESSAGE_STATUS == {"pending", "sent", "delivered", "read", "failed"}

\* Raw status codes carried by messages.update; 99 stands for every code the
\* switch does not name (0, 2, 5, ...).
StatusCodes == {-1, 1, 3, 4, 99}
ReceiptTypes == {"read", "delivery"}

\* Transport message ids: the transport issues a fresh one per accepted send
\* (at most two per ledger row: media and text).  0 is SQL NULL.
WaIds == 1..(2 * MaxRows)

VARIABLES
    now,             \* NOW() / new Date() as last read, a logical clock
    media_messages,  \* the ledger table, indexed by its AUTO_INCREMENT id
    report_time,     \* the timeline table, keyed by whatsapp_message_id (UNIQUE)
    subscription,    \* subscription.num_messages of each tenant
    issued,          \* ids the transport has returned from sendMessage, with the tenant
    req,             \* the sendMedia requests (handler locals and position)
    calls,           \* number of sendMedia calls made so far
    events,          \* handler invocations of messages.update / receipt.update
    emittedFor,      \* history: what the transport has emitted for each id
    replayed,        \* history: a status event was applied to a record that had it
    instances,       \* the registry entry of the tenant (instances[instanceId])
    socks,           \* the transport handles makeWASocket has returned
    qrReq,           \* the generateQRCode request (handler locals and position)
    ticks,           \* the Scheduler's cron callbacks (position and awaited handle)
    resetReq         \* the resetInstance request

vars == <<now, media_messages, report_time, subscription, issued, req, calls, events,
          emittedFor, replayed, instances, socks, qrReq, ticks, resetReq>>

\* The Connection Supervisor's variables
conn == <<instances, socks, qrReq, ticks, resetReq>>

\* The variables of the ledger, the Send Pipeline and the receipt handler
ledger == <<now, media_messages, report_time, subscription, issued, req, calls, events,
            emittedFor, replayed>>

\* The history variables
hist == <<emittedFor, replayed>>

\* ------------------------------------------------------------------ tables

NoRow ==
    [present |-> FALSE, instance_id |-> "", initiated_time |-> 0, sent_time |-> 0,
     delivered_time |-> 0, read_time |-> 0, failed_time |-> 0]

TimeFields == {"initiated_time", "sent_time", "delivered_time", "read_time", "failed_time"}

RowIds == 1..Len(media_messages)

\* INSERT INTO media_messages (..., schedule_time, message_status,
\* whatsapp_message_id, created_at) VALUES (..., ?, ?, ?, NOW()), with
\* schedule_time NULL as for a request without scheduleTime
NewLedgerRow(instanceId, status, t) ==
    [instance_id |-> instanceId, message_status |-> status,
     whatsapp_message_id |-> 0, created_at |-> t, schedule_time |-> 0]

\* The row saveScheduledMessage inserts: 'pending', whatsapp_message_id NULL
ScheduledRow(instanceId, scheduleTime) ==
    [instance_id |-> instanceId, message_status |-> "pending",
     whatsapp_message_id |-> 0, created_at |-> 0, schedule_time |-> scheduleTime]

\* switch (messageStatus.toLowerCase()) of migrateMessageToReportTime
StatusField(messageStatus) ==
    CASE messageStatus = "sent" -> "sent_time"
      [] messageStatus = "delivered" -> "delivered_time"
      [] messageStatus = "read" -> "read_time"
      [] messageStatus = "failed" -> "failed_time"
      [] OTHER -> "initiated_time"

\* The upsert without its <statusField> column.
MigrateUpsertWithoutStatusField(row, instanceId, messageStatus, createdAt) ==
    LET base == IF row.present
                THEN row
                ELSE [NoRow EXCEPT !.present = TRUE, !.instance_id = instanceId]
    IN  [base EXCEPT !.initiated_time = createdAt]

\* INSERT INTO report_time (instance_id, recipient, whatsapp_message_id,
\*   initiated_time, <statusField>, created_at) VALUES (...)
\* ON DUPLICATE KEY UPDATE initiated_time = VALUES(initiated_time),
\*   <statusField> = VALUES(<statusField>)
MigrateUpsert(row, instanceId, messageStatus, createdAt) ==
    LET f == StatusField(messageStatus)
        base == IF row.present
                THEN row
                ELSE [NoRow EXCEPT !.present = TRUE, !.instance_id = instanceId]
    IN  [[base EXCEPT !.initiated_time = createdAt] EXCEPT ![f] = createdAt]

\* The ON DUPLICATE KEY UPDATE clause without its IS NULL guards.
ReceiptUpsertOverwriting(row, instanceId, createdAt, newStatus, t) ==
    IF ~row.present
    THEN [present |-> TRUE, instance_id |-> instanceId, initiated_time |-> createdAt,
          sent_time |-> IF newStatus = "sent" THEN createdAt ELSE 0,
          delivered_time |-> IF newStatus = "delivered" THEN t ELSE 0,
          read_time |-> IF newStatus = "read" THEN t ELSE 0,
          failed_time |-> IF newStatus = "failed" THEN t ELSE 0]
    ELSE [row EXCEPT
            !.sent_time = IF newStatus = "sent" THEN t ELSE @,
            !.delivered_time = IF newStatus = "delivered" THEN t ELSE @,
            !.read_time = IF newStatus = "read" THEN t ELSE @,
            !.failed_time = IF newStatus = "failed" THEN t ELSE @]

\* The receipt handler's upsert: INSERT ... ON DUPLICATE KEY UPDATE
\*   sent_time = CASE WHEN ? = 'sent' AND sent_time IS NULL
\*               THEN CURRENT_TIMESTAMP() ELSE sent_time END, ...
ReceiptUpsert(row, instanceId, createdAt, newStatus, t) ==
    IF ~row.present
    THEN [present |-> TRUE, instance_id |-> instanceId, initiated_time |-> createdAt,
          sent_time |-> IF newStatus = "sent" THEN createdAt ELSE 0,
          delivered_time |-> IF newStatus = "delivered" THEN t ELSE 0,
          read_time |-> IF newStatus = "read" THEN t ELSE 0,
          failed_time |-> IF newStatus = "failed" THEN t ELSE 0]
    ELSE [row EXCEPT
            !.sent_time = IF newStatus = "sent" /\ @ = 0 THEN t ELSE @,
            !.delivered_time = IF newStatus = "delivered" /\ @ = 0 THEN t ELSE @,
            !.read_time = IF newStatus = "read" /\ @ = 0 THEN t ELSE @,
            !.failed_time = IF newStatus = "failed" /\ @ = 0 THEN t ELSE @]

\* SELECT id FROM media_messages WHERE instance_id = ? AND whatsapp_message_id = ?
\* rows[0].id, or 0 when no row matches
\* The lookup without its whatsapp_message_id condition.
getDatabaseIdOfAnyMessage(instanceId, messageId) ==
    LET ids == {id \in RowIds : media_messages[id].instance_id = instanceId}
    IN  IF ids = {} THEN 0 ELSE CHOOSE id \in ids : \A o \in ids : id <= o

getDatabaseId(instanceId, messageId) ==
    LET ids == {id \in RowIds :
                  /\ media_messages[id].instance_id = instanceId
                  /\ media_messages[id].whatsapp_message_id = messageId}
    IN  IF ids = {} THEN 0 ELSE CHOOSE id \in ids : \A o \in ids : id <= o

\* ------------------------------------------------------------------- clock

\* A statement that reads NOW() / CURRENT_TIMESTAMP() / new Date() reads t:
\* the value of the last read, or a later one.
ReadClock(t) ==
    /\ t \in {now, now + 1}
    /\ t <= MaxTime
    /\ now' = t

Times == 1..MaxTime

\* --------------------------------------------- receipt handler (updateStatus.js)

\* The switch with a default branch that yields PENDING.
MapStatusCodeDefaultPending(code) ==
    CASE code = 3 -> "delivered"
      [] code = 4 -> "read"
      [] code = -1 -> "failed"
      [] OTHER -> "pending"

\* switch (update.update.status) of the messages.update handler
MapStatusCode(code) ==
    CASE code = 1 -> "pending"
      [] code = 3 -> "delivered"
      [] code = 4 -> "read"
      [] code = -1 -> "failed"
      [] OTHER -> "sent"

\* update.receipt.type === 'read' ? READ : DELIVERED
MapReceiptType(rtype) == IF rtype = "read" THEN "read" ELSE "delivered"

\* if (!Object.values(MESSAGE_STATUS).includes(newStatus)) newStatus = SENT
ValidatedStatus(newStatus) ==
    IF newStatus \in MESSAGE_STATUS THEN newStatus ELSE "sent"

\* A handler invocation that is not running
IdleEvent ==
    [pc |-> "idle", instanceId |-> "", id |-> 0, kind |-> "", code |-> 0,
     rtype |-> "", dbId |-> 0, newStatus |-> ""]

NewEvent(instanceId, messageId, kind, code, rtype) ==
    [pc |-> "lookup", instanceId |-> instanceId, id |-> messageId, kind |-> kind,
     code |-> code, rtype |-> rtype, dbId |-> 0, newStatus |-> ""]

\* The status an event carries, as the handler will map it
EventStatus(e) ==
    IF e.kind = "status" THEN MapStatusCode(e.code) ELSE MapReceiptType(e.rtype)

FreeEventSlot(i) ==
    /\ events[i].pc \in {"idle", "thrown"}
    /\ \A j \in DOMAIN events : events[j].pc \in {"idle", "thrown"} => i <= j

\* emittedFor: what the transport has emitted for a message so far: only
\* delivered / read events ("delivery"), or some other status too ("mixed")
NoteEmitted(w, status) ==
    [emittedFor EXCEPT ![w] =
        IF status \in {"delivered", "read"} /\ @ \in {"none", "delivery"}
        THEN "delivery" ELSE "mixed"]

\* The transport emits messages.update for a message it accepted on this
\* tenant's connection; setupMessageStatusTracking registered the handler with
\* that tenant's instanceId.  The handler runs up to its first await.
EmitStatusUpdate(i, w, code) ==
    /\ FreeEventSlot(i)
    /\ issued[w] \in Tenants
    /\ events' = [events EXCEPT ![i] = NewEvent(issued[w], w, "status", code, "")]
    /\ emittedFor' = NoteEmitted(w, MapStatusCode(code))
    /\ UNCHANGED <<now, media_messages, report_time, subscription, issued, req, calls,
                   replayed, conn>>

\* The transport emits receipt.update (update.receipt present).
EmitReceiptUpdate(i, w, rtype) ==
    /\ FreeEventSlot(i)
    /\ issued[w] \in Tenants
    /\ events' = [events EXCEPT ![i] = NewEvent(issued[w], w, "receipt", 0, rtype)]
    /\ emittedFor' = NoteEmitted(w, MapReceiptType(rtype))
    /\ UNCHANGED <<now, media_messages, report_time, subscription, issued, req, calls,
                   replayed, conn>>

\* The transport emits messages.update (kind "status") or receipt.update
\* (kind "receipt") on the connection of tenant a, for a message id of a
\* message that tenant has sent; the handler was registered with a's instanceId.
EmitOnConnection(i, a, w, kind, code, rtype) ==
    /\ FreeEventSlot(i)
    /\ \E id \in RowIds : /\ media_messages[id].instance_id = a
                          /\ media_messages[id].whatsapp_message_id = w
    /\ events' = [events EXCEPT ![i] =
                     IF kind = "status" THEN NewEvent(a, w, "status", code, "")
                     ELSE NewEvent(a, w, "receipt", 0, rtype)]
    /\ emittedFor' = NoteEmitted(w, IF kind = "status" THEN MapStatusCode(code)
                                    ELSE MapReceiptType(rtype))
    /\ UNCHANGED <<now, media_messages, report_time, subscription, issued, req, calls,
                   replayed, conn>>

\* await getDatabaseId(instanceId, messageId); if (!found) continue;
\* then the status mapping, up to the next await (the 500ms / 1000ms timer
\* for delivered / read of messages.update, else updateMessageStatusInDB).
\* From here on the handler reads only dbId and newStatus.
EventLookup(i) ==
    LET e == events[i]
        dbId == getDatabaseId(e.instanceId, e.id)
    IN  /\ e.pc = "lookup"
        /\ events' = [events EXCEPT ![i] =
              IF dbId = 0
              THEN IdleEvent
              ELSE [IdleEvent EXCEPT !.dbId = dbId, !.newStatus = EventStatus(e),
                                     !.pc = IF e.kind = "status" /\ e.code \in {3, 4}
                                            THEN "delay" ELSE "update"]]
        /\ UNCHANGED <<now, media_messages, report_time, subscription, issued, req, calls,
                       emittedFor, replayed, conn>>

\* await new Promise(resolve => setTimeout(resolve, 500 | 1000)) has elapsed
EventDelay(i) ==
    /\ events[i].pc = "delay"
    /\ events' = [events EXCEPT ![i].pc = "update"]
    /\ UNCHANGED <<now, media_messages, report_time, subscription, issued, req, calls,
                   emittedFor, replayed, conn>>

\* updateMessageStatusInDB committing the ledger update although the
\* timeline write threw
ReceiptStatusWriteWithoutRollback(dbId, status, t, timelineOk) ==
    LET newStatus == ValidatedStatus(status)
        row == media_messages[dbId]
        w == row.whatsapp_message_id
    IN  /\ media_messages' = [media_messages EXCEPT ![dbId].message_status = newStatus]
        /\ report_time' =
              IF w # 0 /\ timelineOk
              THEN [report_time EXCEPT ![w] =
                      ReceiptUpsert(@, row.instance_id, row.created_at, newStatus, t)]
              ELSE report_time

\* updateMessageStatusInDB of updateStatus.js: one transaction (SELECT the row,
\* UPDATE message_status, upsert report_time, commit); its writes become
\* visible together at the commit.
\* Between beginTransaction() and commit(); when the INSERT throws
\* (timelineOk FALSE) the catch runs rollback() and neither table changes.
ReceiptStatusWrite(dbId, status, t, timelineOk) ==
    LET newStatus == ValidatedStatus(status)
        row == media_messages[dbId]
        w == row.whatsapp_message_id
    IN  IF w # 0 /\ ~timelineOk
        THEN UNCHANGED <<media_messages, report_time>>
        ELSE /\ media_messages' = [media_messages EXCEPT ![dbId].message_status = newStatus]
             /\ report_time' =
                   IF w # 0
                   THEN [report_time EXCEPT ![w] =
                           ReceiptUpsert(@, row.instance_id, row.created_at, newStatus, t)]
                   ELSE report_time

\* TRUE when the timeline record of the row already has the timestamp of
\* this status, set at an earlier time than t
IsReplay(dbId, newStatus, t) ==
    LET w == media_messages[dbId].whatsapp_message_id
    IN  /\ w # 0
        /\ newStatus # "pending"
        /\ report_time[w].present
        /\ report_time[w][StatusField(newStatus)] # 0
        /\ report_time[w][StatusField(newStatus)] < t

EventUpdate(i, t, timelineOk) ==
    LET e == events[i]
        thrown == media_messages[e.dbId].whatsapp_message_id # 0 /\ ~timelineOk
    IN  /\ e.pc = "update"
        /\ ReadClock(t)
        /\ ReceiptStatusWrite(e.dbId, e.newStatus, t, timelineOk)
        /\ events' = [events EXCEPT ![i] =
                         IF thrown THEN [IdleEvent EXCEPT !.pc = "thrown"] ELSE IdleEvent]
        /\ replayed' = (replayed \/ (~thrown /\ IsReplay(e.dbId, e.newStatus, t)))
        /\ UNCHANGED <<subscription, issued, req, calls, emittedFor, conn>>

\* ------------------------------------------------ Send Pipeline (messages.js)

\* The locals of one sendMedia request.  retry is retryCount of the running
\* sendWithRetry call; lastSent is the index of the message of the latest
\* sock.sendMessage call and paced tells whether await sleep(getRandomDelay())
\* has run since that call.
IdleReq ==
    [pc |-> "idle", tenant |-> "", n |-> 0, hasMedia |-> FALSE, sock |-> "",
     i |-> 0, hasText |-> FALSE, dbId |-> 0, waId |-> 0, retry |-> 0, sent |-> 0,
     remaining |-> 0, result |-> "", rows |-> {}, attempted |-> FALSE,
     errRows |-> {}, markLost |-> {}, lastSent |-> 0, paced |-> FALSE,
     scheduleTime |-> [minute |-> 0, second |-> 0]]

Slots == DOMAIN req

\* req.body.scheduleTime: absent, or an instant given as the minute it lies in
\* (the unit of the clock) and the seconds within that minute
NoScheduleTime == [minute |-> 0, second |-> 0]

ScheduleTimes == [minute : Times, second : {0, 30}]

\* formatScheduledAt: null when !scheduledAt, else the date formatted as
\* YYYY-MM-DDTHH:mm, which drops the seconds
formatScheduledAt(scheduledAt) ==
    IF scheduledAt = NoScheduleTime THEN 0 ELSE scheduledAt.minute

\* SELECT COUNT(*) FROM media_messages WHERE instance_id = ? AND created_at
\* within the subscription window (the window covers the whole run)
MessageCount(instanceId) ==
    Cardinality({id \in RowIds : media_messages[id].instance_id = instanceId})

\* The quota gate with the batch-size comparison left out.
QuotaRejectsWithoutBatchSize(batchSize, messagesRemaining) ==
    messagesRemaining <= 0

\* if (messagesRemaining <= 0) ...  if (messages.length > messagesRemaining) ...
QuotaRejects(batchSize, messagesRemaining) ==
    \/ messagesRemaining <= 0
    \/ batchSize > messagesRemaining

\* The id the transport returns from sock.sendMessage: one it never used
FreshWaId == CHOOSE w \in WaIds : issued[w] = "" /\ \A o \in WaIds : issued[o] = "" => w <= o

\* The loop taking the last message of the batch right after the first one.
AdvanceOutOfOrder(rec) ==
    IF Cardinality(rec.rows) < rec.n
    THEN [rec EXCEPT !.i = IF @ = 1 THEN rec.n ELSE @ - 1, !.pc = "log"]
    ELSE [rec EXCEPT !.pc = "done", !.result = "success"]

\* End of one iteration of for (const message of messages): the next message,
\* or return totalMessagesSent and res.json({success: true, ...})
Advance(rec) ==
    IF rec.i < rec.n
    THEN [rec EXCEPT !.i = @ + 1, !.pc = "log"]
    ELSE [rec EXCEPT !.pc = "done", !.result = "success"]

\* POST /:instanceId/send-media reaches sendMedia; req.sock was attached by
\* attachWhatsAppInstance.  The handler runs up to its first query.
SendMediaStartAt(r, t, n, hasMedia, sock, scheduleTime) ==
    /\ req[r].pc \in {"idle", "done"}
    /\ calls < MaxCalls
    /\ Len(media_messages) + n <= MaxRows
    /\ calls' = calls + 1
    /\ req' = [req EXCEPT ![r] =
          IF n = 0
          THEN [IdleReq EXCEPT !.pc = "done", !.tenant = t, !.result = "messages_required"]
          ELSE [IdleReq EXCEPT !.pc = "subscription", !.tenant = t, !.n = n,
                               !.hasMedia = hasMedia, !.sock = sock,
                               !.scheduleTime = scheduleTime]]
    /\ UNCHANGED <<now, media_messages, report_time, subscription, issued, events, hist, conn>>

\* sendMedia for a request body without scheduleTime
SendMediaStart(r, t, n, hasMedia, sock) ==
    SendMediaStartAt(r, t, n, hasMedia, sock, NoScheduleTime)

\* SELECT s.* FROM subscription s WHERE s.instance_id = ? AND
\* s.date_expiry >= CURDATE() ... LIMIT 1
SendMediaSubscription(r, active) ==
    /\ req[r].pc = "subscription"
    /\ req' = [req EXCEPT ![r] =
          IF active
          THEN [@ EXCEPT !.pc = "count"]
          ELSE [@ EXCEPT !.pc = "done", !.result = "no_subscription"]]
    /\ UNCHANGED <<now, media_messages, report_time, subscription, issued, calls, events, hist, conn>>

\* The COUNT query, the quota checks, the socket check, the media file
\* checks, and the entry of sendMessagesOneAtATime up to its first await.
SendMediaQuota(r, fileOk) ==
    LET q == req[r]
        messagesRemaining == subscription[q.tenant] - MessageCount(q.tenant)
        checked == [q EXCEPT !.remaining = messagesRemaining]
    IN  /\ q.pc = "count"
        /\ req' = [req EXCEPT ![r] =
              IF QuotaRejects(q.n, messagesRemaining)
              THEN [checked EXCEPT !.pc = "done", !.result = "quota_rejected"]
              ELSE IF q.sock = "none"
              THEN [checked EXCEPT !.pc = "done", !.result = "not_connected"]
              ELSE IF q.hasMedia /\ ~fileOk
              THEN [checked EXCEPT !.pc = "done", !.result = "bad_file"]
              ELSE IF q.sock # "ready"
              THEN [checked EXCEPT !.pc = "catch"]
              ELSE [checked EXCEPT !.pc = "log", !.i = 1]]
        /\ UNCHANGED <<now, media_messages, report_time, subscription, issued, calls, events, hist, conn>>

\* catch (error) of sendMedia: logMediaMessageToDB(instanceId,
\* messages.map(m => m.number), ..., 'failed', null), then res.status(500)
SendMediaCatch(r, dbOk, t) ==
    LET q == req[r]
        newRows == [k \in 1..q.n |->
                       [NewLedgerRow(q.tenant, "failed", t)
                           EXCEPT !.schedule_time = formatScheduledAt(q.scheduleTime)]]
        first == Len(media_messages) + 1
    IN  /\ q.pc = "catch"
        /\ ReadClock(t)
        /\ media_messages' = IF dbOk THEN media_messages \o newRows ELSE media_messages
        /\ req' = [req EXCEPT ![r] =
              [q EXCEPT !.pc = "done", !.result = "error",
                        !.rows = IF dbOk THEN first..(first + q.n - 1) ELSE {}]]
        /\ UNCHANGED <<report_time, subscription, issued, calls, events, hist, conn>>

\* replacePlaceholders, then logMediaMessageToDB(..., 'pending', null)
PipelineLog(r, hasText, dbOk, t) ==
    LET q == req[r]
        dbMessageId == Len(media_messages) + 1
    IN  /\ q.pc = "log"
        /\ ReadClock(t)
        /\ IF dbOk
           THEN /\ media_messages' = Append(media_messages,
                      [NewLedgerRow(q.tenant, "pending", t)
                          EXCEPT !.schedule_time = formatScheduledAt(q.scheduleTime)])
                /\ req' = [req EXCEPT ![r] =
                      [q EXCEPT !.dbId = dbMessageId, !.rows = @ \cup {dbMessageId},
                                !.hasText = hasText, !.waId = 0, !.retry = 0,
                                !.pc = IF q.hasMedia THEN "media"
                                       ELSE IF hasText THEN "text" ELSE "sleep"]]
           ELSE /\ media_messages' = media_messages
                /\ req' = [req EXCEPT ![r] = Advance([q EXCEPT !.dbId = 0])]
        /\ UNCHANGED <<report_time, subscription, issued, calls, events, hist, conn>>

\* sendWithRetry without the test error.message === 'Timed Out'.
PipelineSendRetryingAnyError(r, outcome) ==
    LET q == req[r]
        tried == [q EXCEPT !.attempted = TRUE, !.lastSent = q.i, !.paced = FALSE]
    IN  /\ q.pc \in {"media", "text"}
        /\ IF outcome = "ok"
           THEN /\ issued' = [issued EXCEPT ![FreshWaId] = q.tenant]
                /\ req' = [req EXCEPT ![r] =
                      [tried EXCEPT !.waId = FreshWaId,
                                    !.retry = IF q.pc = "media" /\ q.hasText
                                              THEN 0 ELSE @,
                                    !.pc = IF q.pc = "media" /\ q.hasText
                                           THEN "text" ELSE "sleep"]]
           ELSE /\ issued' = issued
                /\ req' = [req EXCEPT ![r] =
                      IF q.retry < MAX_RETRIES
                      THEN [tried EXCEPT !.retry = @ + 1]
                      ELSE [tried EXCEPT !.pc = "markfailed"]]
        /\ UNCHANGED <<now, media_messages, report_time, subscription, calls, events, hist, conn>>

\* sendWithRetry: sock.sendMessage(jid, content) resolves with key.id, or
\* rejects with 'Timed Out' (retried while retryCount < MAX_RETRIES, after
\* sleep(RETRY_DELAY)) or with another error (thrown at once)
PipelineSend(r, outcome) ==
    LET q == req[r]
        tried == [q EXCEPT !.attempted = TRUE, !.lastSent = q.i, !.paced = FALSE]
    IN  /\ q.pc \in {"media", "text"}
        /\ IF outcome = "ok"
           THEN /\ issued' = [issued EXCEPT ![FreshWaId] = q.tenant]
                /\ req' = [req EXCEPT ![r] =
                      [tried EXCEPT !.waId = FreshWaId,
                                    !.retry = IF q.pc = "media" /\ q.hasText
                                              THEN 0 ELSE @,
                                    !.pc = IF q.pc = "media" /\ q.hasText
                                           THEN "text" ELSE "sleep"]]
           ELSE /\ issued' = issued
                /\ req' = [req EXCEPT ![r] =
                      IF outcome = "timeout" /\ q.retry < MAX_RETRIES
                      THEN [tried EXCEPT !.retry = @ + 1]
                      ELSE [tried EXCEPT !.pc = "markfailed"]]
        /\ UNCHANGED <<now, media_messages, report_time, subscription, calls, events, hist, conn>>

\* updateMessageStatusInDB of messages.js: UPDATE media_messages SET
\* message_status; when the row has a whatsapp_message_id, UPDATE report_time
\* SET <statusField> = NOW(), and migrateMessageToReportTime if no row matched
PipelineStatusWrite(dbId, newStatus, t) ==
    LET row == media_messages[dbId]
        w == row.whatsapp_message_id
        f == StatusField(newStatus)
    IN  /\ media_messages' = [media_messages EXCEPT ![dbId].message_status = newStatus]
        /\ report_time' =
              IF w # 0 /\ newStatus # "pending"
              THEN [report_time EXCEPT ![w] =
                      IF @.present
                      THEN [@ EXCEPT ![f] = t]
                      ELSE MigrateUpsert(@, row.instance_id, newStatus, row.created_at)]
              ELSE report_time

\* catch (mediaError | textError): await updateMessageStatusInDB(dbMessageId,
\* 'failed'); throw; the outer catch (err) logs and the loop goes on
PipelineMarkFailed(r, dbOk, t) ==
    LET q == req[r]
    IN  /\ q.pc = "markfailed"
        /\ ReadClock(t)
        /\ IF dbOk
           THEN PipelineStatusWrite(q.dbId, "failed", t)
           ELSE UNCHANGED <<media_messages, report_time>>
        /\ req' = [req EXCEPT ![r] =
              Advance([q EXCEPT !.errRows = @ \cup {q.dbId},
                                !.markLost = IF dbOk THEN @ ELSE @ \cup {q.dbId}])]
        /\ UNCHANGED <<subscription, issued, calls, events, hist, conn>>

\* await sleep(getRandomDelay()): the pacing delay has elapsed
PipelineSleep(r) ==
    /\ req[r].pc = "sleep"
    /\ req' = [req EXCEPT ![r] = [@ EXCEPT !.pc = "update", !.paced = TRUE]]
    /\ UNCHANGED <<now, media_messages, report_time, subscription, issued, calls, events, hist, conn>>

\* updateMessageWithWhatsAppId writing 'failed' for a send that was retried.
PipelineUpdateFailingRetried(r, dbOk) ==
    LET q == req[r]
    IN  /\ q.pc = "update"
        /\ IF q.waId # 0 /\ dbOk
           THEN /\ media_messages' = [media_messages EXCEPT ![q.dbId] =
                      [@ EXCEPT !.whatsapp_message_id = q.waId,
                                !.message_status = IF q.retry > 0 THEN "failed" ELSE "sent"]]
                /\ req' = [req EXCEPT ![r].pc = "migrate"]
           ELSE /\ media_messages' = media_messages
                /\ req' = [req EXCEPT ![r] =
                      Advance([q EXCEPT !.sent = @ + 1,
                                        !.errRows = IF q.waId # 0 THEN @ \cup {q.dbId} ELSE @])]
        /\ UNCHANGED <<now, report_time, subscription, issued, calls, events, hist, conn>>

\* updateMessageWithWhatsAppId, up to its UPDATE media_messages SET
\* whatsapp_message_id = ?, message_status = 'sent'.  It returns early when
\* whatsappMessageId is null and returns false when a query throws; the
\* caller ignores the result and counts the message.
PipelineUpdate(r, dbOk) ==
    LET q == req[r]
    IN  /\ q.pc = "update"
        /\ IF q.waId # 0 /\ dbOk
           THEN /\ media_messages' = [media_messages EXCEPT ![q.dbId] =
                      [@ EXCEPT !.whatsapp_message_id = q.waId, !.message_status = "sent"]]
                /\ req' = [req EXCEPT ![r].pc = "migrate"]
           ELSE /\ media_messages' = media_messages
                /\ req' = [req EXCEPT ![r] =
                      Advance([q EXCEPT !.sent = @ + 1,
                                        !.errRows = IF q.waId # 0 THEN @ \cup {q.dbId} ELSE @])]
        /\ UNCHANGED <<now, report_time, subscription, issued, calls, events, hist, conn>>

\* migrateMessageToReportTime(instance_id, recipient, whatsappMessageId,
\* 'sent', created_at) called by updateMessageWithWhatsAppId; it catches its
\* own errors.  Then totalMessagesSent++.
PipelineMigrate(r, dbOk) ==
    LET q == req[r]
        row == media_messages[q.dbId]
    IN  /\ q.pc = "migrate"
        /\ report_time' =
              IF dbOk
              THEN [report_time EXCEPT ![q.waId] =
                      MigrateUpsert(@, row.instance_id, "sent", row.created_at)]
              ELSE report_time
        /\ req' = [req EXCEPT ![r] = Advance([q EXCEPT !.sent = @ + 1])]
        /\ UNCHANGED <<now, media_messages, subscription, issued, calls, events, hist, conn>>

\* ------------------------------------------- Connection Supervisor (qrcode.js)

\* const maxRetries = 3 of generateQRCode
maxRetries == 3

SockIds == 1..MaxSocks

\* instances[instanceId] is undefined
NoInstance == [present |-> FALSE, sock |-> 0, status |-> "", qrCode |-> FALSE]

\* A handle makeWASocket has not returned yet.  promise and hasResolved are the
\* connectionPromise and the flag of the initializeSock call that makes it,
\* result the value the promise resolved with,
\* saving the saveCreds() call of its open handler (the handler clears the
\* 120 s timeout just before the call), timer the 5 s reconnect timer its
\* close handler sets and timer2 the one a second close event of the same
\* handle sets.
UnusedSock ==
    [state |-> "unused", promise |-> "pending", hasResolved |-> FALSE, result |-> "",
     saving |-> "none", timer |-> "none", timer2 |-> "none"]

TimerSlots == {"timer", "timer2"}

\* The handle is connecting, waiting for the QR scan, or open
Live(s) == socks[s].state \in {"connecting", "qr", "open"}

LiveSocks == {s \in SockIds : Live(s)}

\* A generateQRCode request that is not running.  waitTime is the
\* milliseconds of the last backoff wait of its retry loop.
IdleQr == [pc |-> "idle", sock |-> 0, retryCount |-> 0, result |-> "", waitTime |-> 0]

\* A cron callback that is not running.  page is pendingMessages, pos the
\* position of the message loop in it, attempt the i of sendMessage's loop,
\* waId the whatsapp_message_id sendMessage returned, tried the messages for
\* which this callback has called sock.sendMessage, in the order of the calls.
IdleTick ==
    [pc |-> "idle", sock |-> 0, page |-> <<>>, pos |-> 0, attempt |-> 0, waId |-> 0,
     tried |-> <<>>]

CanMake == \E s \in SockIds : socks[s].state = "unused"

NewSock == CHOOSE s \in SockIds :
               socks[s].state = "unused" /\ \A o \in SockIds : socks[o].state = "unused" => s <= o

\* initializeSock after await useMultiFileAuthState: makeWASocket, the handlers,
\* the 120 s timeout, return connectionPromise
MakeSocket(sk) == [sk EXCEPT ![NewSock] = [UnusedSock EXCEPT !.state = "connecting"]]

\* connection.update with qr, first time: the entry is replaced, the promise resolved
SockQr(s) ==
    /\ socks[s].state = "connecting"
    /\ ~socks[s].hasResolved
    /\ instances' = [present |-> TRUE, sock |-> s, status |-> "disconnected", qrCode |-> TRUE]
    /\ socks' = [socks EXCEPT ![s].state = "qr", ![s].hasResolved = TRUE,
                              ![s].result = IF socks[s].promise = "pending"
                                            THEN "qrCode" ELSE @,
                              ![s].promise = IF @ = "pending" THEN "resolved" ELSE @]
    /\ UNCHANGED <<qrReq, ticks, resetReq, ledger>>

\* The open branch with resolve({ connected: true }) ahead of await saveCreds()
SockOpeningResolvingAtOnce(s) ==
    /\ socks[s].state \in {"connecting", "qr"}
    /\ instances' = [present |-> TRUE, sock |-> s, status |-> "connected", qrCode |-> FALSE]
    /\ socks' = [socks EXCEPT ![s].state = "open", ![s].saving = "pending",
                              ![s].hasResolved = TRUE,
                              ![s].result = IF ~socks[s].hasResolved
                                               /\ socks[s].promise = "pending"
                                            THEN "connected" ELSE @,
                              ![s].promise = IF ~socks[s].hasResolved /\ @ = "pending"
                                             THEN "resolved" ELSE @]
    /\ UNCHANGED <<qrReq, ticks, resetReq, ledger>>

\* connection === 'open' up to await saveCreds(): clearTimeout(timeout), the
\* entry is replaced
SockOpening(s) ==
    /\ socks[s].state \in {"connecting", "qr"}
    /\ instances' = [present |-> TRUE, sock |-> s, status |-> "connected", qrCode |-> FALSE]
    /\ socks' = [socks EXCEPT ![s].state = "open", ![s].saving = "pending"]
    /\ UNCHANGED <<qrReq, ticks, resetReq, ledger>>

\* await saveCreds() of the open branch settles: when it fulfils,
\* if (!hasResolved) { resolve({ connected: true }); hasResolved = true };
\* when it rejects the handler ends there
SockSaved(s, saveOk) ==
    /\ socks[s].saving = "pending"
    /\ socks' = IF saveOk
                THEN [socks EXCEPT ![s].saving = "done", ![s].hasResolved = TRUE,
                                   ![s].result = IF ~socks[s].hasResolved
                                                    /\ socks[s].promise = "pending"
                                                 THEN "connected" ELSE @,
                                   ![s].promise = IF ~socks[s].hasResolved /\ @ = "pending"
                                                  THEN "resolved" ELSE @]
                ELSE [socks EXCEPT ![s].saving = "failed"]
    /\ UNCHANGED <<instances, qrReq, ticks, resetReq, ledger>>

\* connection === 'open' when saveCreds() fulfils before any other event is
\* handled: the entry is replaced, the 120 s timeout cleared, the promise resolved
SockOpen(s) ==
    /\ socks[s].state \in {"connecting", "qr"}
    /\ instances' = [present |-> TRUE, sock |-> s, status |-> "connected", qrCode |-> FALSE]
    /\ socks' = [socks EXCEPT ![s].state = "open", ![s].saving = "done",
                              ![s].hasResolved = TRUE,
                              ![s].result = IF socks[s].promise = "pending"
                                            THEN "connected" ELSE @,
                              ![s].promise = IF @ = "pending" THEN "resolved" ELSE @]
    /\ UNCHANGED <<qrReq, ticks, resetReq, ledger>>

\* connection === 'close' branch, on the registry:
\* instances[instanceId] = {...instances[instanceId], status: ...}
CloseEntry(loggedOut) ==
    [instances EXCEPT !.present = TRUE,
                      !.status = IF loggedOut THEN "disconnected" ELSE "reconnecting"]

\* The close branch with the reconnect timer set whatever the status code
ClosedSockAlwaysArmed(rec, loggedOut) ==
    [rec EXCEPT !.state = "closed",
                !.timer = "armed",
                !.promise = IF loggedOut /\ ~rec.hasResolved /\ @ = "pending"
                            THEN "rejected" ELSE @]

\* connection === 'close' branch, on the handle: setTimeout(..., 5000) when
\* shouldReconnect, else reject unless hasResolved
ClosedSock(rec, loggedOut) ==
    [rec EXCEPT !.state = "closed",
                !.timer = IF loggedOut THEN @ ELSE "armed",
                !.promise = IF loggedOut /\ ~rec.hasResolved /\ @ = "pending"
                            THEN "rejected" ELSE @]

\* The transport closes the handle (statusCode loggedOut or any other)
SockClose(s, loggedOut) ==
    /\ Live(s)
    /\ instances' = CloseEntry(loggedOut)
    /\ socks' = [socks EXCEPT ![s] = ClosedSock(@, loggedOut)]
    /\ UNCHANGED <<qrReq, ticks, resetReq, ledger>>

\* A further close event of a handle that has closed: the close branch runs
\* again and sets a timer of its own
SockCloseAgain(s, loggedOut) ==
    /\ socks[s].state = "closed"
    /\ socks[s].timer2 = "none"
    /\ instances' = CloseEntry(loggedOut)
    /\ socks' = [socks EXCEPT ![s].timer2 = IF loggedOut THEN @ ELSE "armed",
                              ![s].promise = IF loggedOut /\ ~socks[s].hasResolved
                                                /\ @ = "pending"
                                             THEN "rejected" ELSE @]
    /\ UNCHANGED <<qrReq, ticks, resetReq, ledger>>

\* setTimeout(() => reject(new Error('Connection timeout')), 120000); open clears it
PromiseTimeout(s) ==
    /\ socks[s].state # "unused"
    /\ socks[s].saving = "none"
    /\ socks[s].promise = "pending"
    /\ socks' = [socks EXCEPT ![s].promise = "rejected"]
    /\ UNCHANGED <<instances, qrReq, ticks, resetReq, ledger>>

\* The reconnect timer with await saveCreds() whatever the entry points at
TimerFireUnguarded(s, j) ==
    /\ socks[s][j] = "armed"
    /\ socks' = [socks EXCEPT ![s][j] = "saving"]
    /\ UNCHANGED <<instances, qrReq, ticks, resetReq, ledger>>

\* The reconnect timer j of handle s fires:
\* if (currentSock === sock) await saveCreds()
TimerFire(s, j) ==
    /\ socks[s][j] = "armed"
    /\ socks' = [socks EXCEPT ![s][j] =
                    IF instances.present /\ instances.sock = s THEN "saving" ELSE "none"]
    /\ UNCHANGED <<instances, qrReq, ticks, resetReq, ledger>>

\* await saveCreds() of the timer settles: delete instances[instanceId];
\* initializeSock(instanceId) up to its first await; a rejection is caught and logged
TimerReconnect(s, j, saveOk) ==
    /\ socks[s][j] = "saving"
    /\ instances' = IF saveOk THEN NoInstance ELSE instances
    /\ socks' = [socks EXCEPT ![s][j] = IF saveOk THEN "auth" ELSE "none"]
    /\ UNCHANGED <<qrReq, ticks, resetReq, ledger>>

\* initializeSock of the reconnect timer makes the handle
TimerMake(s, j) ==
    /\ socks[s][j] = "auth"
    /\ CanMake
    /\ socks' = MakeSocket([socks EXCEPT ![s][j] = "none"])
    /\ UNCHANGED <<instances, qrReq, ticks, resetReq, ledger>>

\* generateQRCode up to its first await
QrStart ==
    /\ qrReq.pc \in {"idle", "done"}
    /\ qrReq' =
          IF instances.present /\ instances.status = "connected"
          THEN [IdleQr EXCEPT !.pc = "done", !.result = "authenticated"]
          ELSE IF instances.present
          THEN [IdleQr EXCEPT !.pc = "cleanup", !.sock = instances.sock]
          ELSE [IdleQr EXCEPT !.pc = "loop"]
    /\ UNCHANGED <<instances, socks, ticks, resetReq, ledger>>

\* existingInstance.sock.logout() and .end(): the handle closes and its close
\* handler runs, with the reason the transport gives
QrCleanup(loggedOut) ==
    LET s == qrReq.sock
    IN  /\ qrReq.pc = "cleanup"
        /\ IF s # 0 /\ Live(s)
           THEN /\ instances' = CloseEntry(loggedOut)
                /\ socks' = [socks EXCEPT ![s] = ClosedSock(@, loggedOut)]
           ELSE UNCHANGED <<instances, socks>>
        /\ qrReq' = [qrReq EXCEPT !.pc = "delete"]
        /\ UNCHANGED <<ticks, resetReq, ledger>>

\* delete instances[instanceId], the auth folder, then the 5 s wait
QrDelete ==
    /\ qrReq.pc = "delete"
    /\ instances' = NoInstance
    /\ qrReq' = [qrReq EXCEPT !.pc = "loop"]
    /\ UNCHANGED <<socks, ticks, resetReq, ledger>>

\* An attempt of the retry loop: the lingering entry is deleted, then
\* initializeSock(instanceId) up to its first await
QrLoop ==
    /\ qrReq.pc = "loop"
    /\ instances' = NoInstance
    /\ qrReq' = [qrReq EXCEPT !.pc = "auth"]
    /\ UNCHANGED <<socks, ticks, resetReq, ledger>>

\* initializeSock of generateQRCode makes the handle; the handler awaits the promise
QrMake ==
    /\ qrReq.pc = "auth"
    /\ CanMake
    /\ socks' = MakeSocket(socks)
    /\ qrReq' = [qrReq EXCEPT !.pc = "await", !.sock = NewSock]
    /\ UNCHANGED <<instances, ticks, resetReq, ledger>>

\* The catch of the retry loop: retryCount++ and, if (retryCount < maxRetries),
\* the backoff wait waitTime = 3000 * (retryCount + 1); else the loop ends
\* and the error response is sent
QrCatch(q) ==
    IF q.retryCount + 1 < maxRetries
    THEN [q EXCEPT !.pc = "loop", !.retryCount = @ + 1,
                   !.waitTime = 3000 * ((q.retryCount + 1) + 1)]
    ELSE [q EXCEPT !.pc = "done", !.retryCount = @ + 1, !.result = "error"]

\* initializeSock of generateQRCode throws before it has made a handle
\* (useMultiFileAuthState or makeWASocket): the catch of the retry loop
QrAuthFailed ==
    /\ qrReq.pc = "auth"
    /\ qrReq' = QrCatch(qrReq)
    /\ UNCHANGED <<instances, socks, ticks, resetReq, ledger>>

\* The promise settles: the response, or the catch of the retry loop
QrSettled ==
    /\ qrReq.pc = "await"
    /\ socks[qrReq.sock].promise # "pending"
    /\ qrReq' =
          IF socks[qrReq.sock].promise = "resolved"
          THEN [qrReq EXCEPT !.pc = "done", !.result = "ok"]
          ELSE QrCatch(qrReq)
    /\ UNCHANGED <<instances, socks, ticks, resetReq, ledger>>

\* resetInstance: logout() and end() of the entry's handle; a throw ends the
\* request without the delete
ResetStart(logoutOk, loggedOut) ==
    LET s == instances.sock
    IN  /\ resetReq = "idle"
        /\ instances.present
        /\ s # 0
        /\ IF Live(s)
           THEN /\ instances' = CloseEntry(loggedOut)
                /\ socks' = [socks EXCEPT ![s] = ClosedSock(@, loggedOut)]
           ELSE UNCHANGED <<instances, socks>>
        /\ resetReq' = IF logoutOk THEN "delete" ELSE "idle"
        /\ UNCHANGED <<qrReq, ticks, ledger>>

\* delete instances[instanceId] of resetInstance
ResetDelete ==
    /\ resetReq = "delete"
    /\ instances' = NoInstance
    /\ resetReq' = "idle"
    /\ UNCHANGED <<socks, qrReq, ticks, ledger>>

\* ------------------------------------------------------ Scheduler (schedule.js)

FreeTick(k) ==
    /\ ticks[k].pc = "idle"
    /\ \A j \in DOMAIN ticks : ticks[j].pc = "idle" => k <= j

\* instance?.sock && instance.status === 'connected'
Usable == instances.present /\ instances.sock # 0 /\ instances.status = "connected"

\* The cron callback with pending messages of the tenant: the message loop
\* when the entry is usable, else initializeSock(instanceId) up to its first await
TickStart(k) ==
    /\ FreeTick(k)
    /\ ticks' = [ticks EXCEPT ![k].pc = IF Usable THEN "send" ELSE "auth"]
    /\ UNCHANGED <<instances, socks, qrReq, resetReq, ledger>>

\* initializeSock of the Scheduler makes the handle; the callback awaits the promise
TickMake(k) ==
    /\ ticks[k].pc = "auth"
    /\ CanMake
    /\ socks' = MakeSocket(socks)
    /\ ticks' = [ticks EXCEPT ![k] = [@ EXCEPT !.pc = "await", !.sock = NewSock]]
    /\ UNCHANGED <<instances, qrReq, resetReq, ledger>>

\* The callback marking its messages failed when the entry is not usable.
TickSettledMarkingFailed(k) ==
    /\ ticks[k].pc = "await"
    /\ socks[ticks[k].sock].promise # "pending"
    /\ IF socks[ticks[k].sock].promise = "resolved" /\ Usable
       THEN /\ ticks' = [ticks EXCEPT ![k] = [@ EXCEPT !.pc = "send", !.sock = 0]]
            /\ media_messages' = media_messages
       ELSE /\ ticks' = [ticks EXCEPT ![k] = IdleTick]
            /\ media_messages' =
                  [id \in RowIds |->
                     IF \E a \in DOMAIN ticks[k].page : ticks[k].page[a] = id
                     THEN [media_messages[id] EXCEPT !.message_status = "failed"]
                     ELSE media_messages[id]]
    /\ UNCHANGED <<instances, socks, qrReq, resetReq, now, report_time, subscription,
                   issued, req, calls, events, hist>>

\* The promise settles: the entry is read again; continue unless usable
TickSettled(k) ==
    /\ ticks[k].pc = "await"
    /\ socks[ticks[k].sock].promise # "pending"
    /\ ticks' = [ticks EXCEPT ![k] =
                    IF socks[ticks[k].sock].promise = "resolved" /\ Usable
                    THEN [@ EXCEPT !.pc = "send", !.sock = 0] ELSE IdleTick]
    /\ UNCHANGED <<instances, socks, qrReq, resetReq, ledger>>

\* The message loop of the callback has ended
TickSend(k) ==
    /\ ticks[k].pc = "send"
    /\ ticks' = [ticks EXCEPT ![k] = IdleTick]
    /\ UNCHANGED <<instances, socks, qrReq, resetReq, ledger>>

\* ------------------------------------------------- Scheduler (schedule.js)

\* The pending rows whose schedule_time has come (a NULL schedule_time never
\* satisfies schedule_time <= NOW())
DuePending(t) ==
    {id \in RowIds : /\ media_messages[id].message_status = "pending"
                     /\ media_messages[id].schedule_time # 0
                     /\ media_messages[id].schedule_time <= t}

\* The sequences that list every element of S once
Orderings(S) ==
    {p \in [1..Cardinality(S) -> S] :
        \A a, b \in 1..Cardinality(S) : a # b => p[a] # p[b]}

\* LIMIT 50
FirstRows(p) == SubSeq(p, 1, IF Len(p) < LIMIT THEN Len(p) ELSE LIMIT)

\* The query without its ORDER BY clause.
getPendingScheduledMessagesUnordered(t) ==
    {FirstRows(p) : p \in Orderings(DuePending(t))}

\* SELECT ... FROM media_messages WHERE message_status = 'pending' AND
\* schedule_time <= NOW() ORDER BY schedule_time ASC LIMIT 50: the results
\* the query may return (rows of equal schedule_time come in any order)
getPendingScheduledMessages(t) ==
    {FirstRows(p) : p \in {o \in Orderings(DuePending(t)) :
        \A a, b \in DOMAIN o :
            a < b => media_messages[o[a]].schedule_time <= media_messages[o[b]].schedule_time}}

\* The cron callback: getPendingScheduledMessages, return when there is none,
\* group by instance_id, then the message loop when the entry is usable, else
\* initializeSock(instanceId) up to its first await
SweepStart(k, t, page) ==
    /\ FreeTick(k)
    /\ ReadClock(t)
    /\ page \in getPendingScheduledMessages(t)
    /\ ticks' = [ticks EXCEPT ![k] =
          IF page = <<>>
          THEN IdleTick
          ELSE [IdleTick EXCEPT !.page = page, !.pos = 1,
                                !.pc = IF Usable THEN "send" ELSE "auth"]]
    /\ UNCHANGED <<media_messages, report_time, subscription, issued, req, calls, events,
                   hist, instances, socks, qrReq, resetReq>>

\* sendMessage(instance.sock, jid, message.message): one pass of its loop
\* for (let i = 0; i < retries; i++).  sock.sendMessage resolves with key.id or
\* throws; a throw is retried after the backoff while i < retries - 1, then
\* sendMessage returns success: false.
SweepAttempt(k, outcome) ==
    LET c == ticks[k]
        m == c.page[c.pos]
        called == [c EXCEPT !.tried = IF c.attempt = 0 THEN Append(@, m) ELSE @]
    IN  /\ c.pc = "send"
        /\ IF outcome = "ok"
           THEN /\ \E w \in WaIds : issued[w] = ""
                /\ issued' = [issued EXCEPT ![FreshWaId] = media_messages[m].instance_id]
                /\ ticks' = [ticks EXCEPT ![k] =
                      [called EXCEPT !.waId = FreshWaId, !.pc = "mark"]]
           ELSE /\ issued' = issued
                /\ ticks' = [ticks EXCEPT ![k] =
                      IF c.attempt < retries - 1
                      THEN [called EXCEPT !.attempt = @ + 1]
                      ELSE [called EXCEPT !.waId = 0, !.pc = "mark"]]
        /\ UNCHANGED <<now, media_messages, report_time, subscription, req, calls, events,
                       hist, instances, socks, qrReq, resetReq>>

\* End of one iteration of for (const message of messages); the callback
\* returns after the last message of the only tenant
SweepAdvance(c) ==
    IF c.pos < Len(c.page)
    THEN [c EXCEPT !.pos = @ + 1, !.attempt = 0, !.waId = 0, !.pc = "send"]
    ELSE IdleTick

\* updateScheduledMessageStatus(message.id, success ? 'sent' : 'failed',
\* whatsapp_message_id): UPDATE media_messages SET message_status = ?
\* [, whatsapp_message_id = ?] WHERE id = ?; a query error is rethrown to the
\* catch (err) of the message loop
SweepMark(k, dbOk) ==
    LET c == ticks[k]
        m == c.page[c.pos]
    IN  /\ c.pc = "mark"
        /\ IF dbOk
           THEN /\ media_messages' = [media_messages EXCEPT ![m] =
                      [@ EXCEPT !.message_status = IF c.waId # 0 THEN "sent" ELSE "failed",
                                !.whatsapp_message_id = IF c.waId # 0 THEN c.waId ELSE @]]
                /\ ticks' = [ticks EXCEPT ![k].pc = "pause"]
           ELSE /\ media_messages' = media_messages
                /\ ticks' = [ticks EXCEPT ![k].pc = "markfailed"]
        /\ UNCHANGED <<now, report_time, subscription, issued, req, calls, events, hist,
                       instances, socks, qrReq, resetReq>>

\* catch (err): await updateScheduledMessageStatus(message.id, 'failed'); when
\* this throws too, the catch (error) of the callback ends the callback
SweepMarkFailed(k, dbOk) ==
    LET c == ticks[k]
        m == c.page[c.pos]
    IN  /\ c.pc = "markfailed"
        /\ IF dbOk
           THEN /\ media_messages' = [media_messages EXCEPT ![m].message_status = "failed"]
                /\ ticks' = [ticks EXCEPT ![k] = SweepAdvance(c)]
           ELSE /\ media_messages' = media_messages
                /\ ticks' = [ticks EXCEPT ![k] = IdleTick]
        /\ UNCHANGED <<now, report_time, subscription, issued, req, calls, events, hist,
                       instances, socks, qrReq, resetReq>>

\* await new Promise(resolve => setTimeout(resolve, 500)) has elapsed
SweepPause(k) ==
    /\ ticks[k].pc = "pause"
    /\ ticks' = [ticks EXCEPT ![k] = SweepAdvance(@)]
    /\ UNCHANGED <<instances, socks, qrReq, resetReq, ledger>>

\* ----------------------------------------------------------- specification

\* The timeline table empty, no request in progress, no registry entry
InitState ==
    /\ now = 1
    /\ report_time = [w \in WaIds |-> NoRow]
    /\ issued = [w \in WaIds |-> ""]
    /\ req = [r \in {1} |-> IdleReq]
    /\ calls = 0
    /\ events = [i \in 1..MaxEvents |-> IdleEvent]
    /\ emittedFor = [w \in WaIds |-> "none"]
    /\ replayed = FALSE
    /\ instances = NoInstance
    /\ socks = [s \in SockIds |-> UnusedSock]
    /\ qrReq = IdleQr
    /\ ticks = [k \in 1..MaxTicks |-> IdleTick]
    /\ resetReq = "idle"

Init ==
    /\ InitState
    /\ media_messages = <<>>
    /\ subscription \in [Tenants -> 0..MaxQuota]

\* Send Pipeline: sendMedia requests, one after the other, of any batch size
Next ==
    \/ \E r \in Slots, t \in Tenants, n \in 0..MaxRows, hasMedia \in BOOLEAN,
          sock \in {"none", "nouser", "ready"} : SendMediaStart(r, t, n, hasMedia, sock)
    \/ \E r \in Slots, active \in BOOLEAN : SendMediaSubscription(r, active)
    \/ \E r \in Slots, fileOk \in BOOLEAN : SendMediaQuota(r, fileOk)
    \/ \E r \in Slots, dbOk \in BOOLEAN, t \in Times : SendMediaCatch(r, dbOk, t)
    \/ \E r \in Slots, hasText \in BOOLEAN, dbOk \in BOOLEAN, t \in Times :
          PipelineLog(r, hasText, dbOk, t)
    \/ \E r \in Slots, outcome \in {"ok", "timeout", "error"} : PipelineSend(r, outcome)
    \/ \E r \in Slots, dbOk \in BOOLEAN, t \in Times : PipelineMarkFailed(r, dbOk, t)
    \/ \E r \in Slots : PipelineSleep(r)
    \/ \E r \in Slots, dbOk \in BOOLEAN : PipelineUpdate(r, dbOk)
    \/ \E r \in Slots, dbOk \in BOOLEAN : PipelineMigrate(r, dbOk)

Spec == Init /\ [][Next]_vars

\* Text-only batches on a connected handle of a tenant with an active
\* subscription of ScenarioRemaining messages, no query failing; the transport
\* still accepts, times out or rejects each send
HealthyNext ==
    \/ \E r \in Slots, t \in Tenants, n \in 1..MaxRows :
          SendMediaStart(r, t, n, FALSE, "ready")
    \/ \E r \in Slots : SendMediaSubscription(r, TRUE)
    \/ \E r \in Slots : SendMediaQuota(r, TRUE)
    \/ \E r \in Slots, t \in Times : PipelineLog(r, TRUE, TRUE, t)
    \/ \E r \in Slots, outcome \in {"ok", "timeout", "error"} : PipelineSend(r, outcome)
    \/ \E r \in Slots, t \in Times : PipelineMarkFailed(r, TRUE, t)
    \/ \E r \in Slots : PipelineSleep(r)
    \/ \E r \in Slots : PipelineUpdate(r, TRUE)
    \/ \E r \in Slots : PipelineMigrate(r, TRUE)

HealthyInit ==
    /\ InitState
    /\ media_messages = <<>>
    /\ subscription = [t \in Tenants |-> ScenarioRemaining]

HealthySpec == HealthyInit /\ [][HealthyNext]_vars

\* The one request of the reconciliation specification: a text message of a
\* tenant whose socket is usable
SendOneText(r, t) ==
    /\ calls = 0
    /\ SendMediaStart(r, t, 1, FALSE, "ready")

\* Reconciliation: one sendMedia request of one text message, and the status and
\* receipt events the transport emits for the ids it returned
LedgerNext ==
    \/ \E r \in Slots, t \in Tenants : SendOneText(r, t)
    \/ \E r \in Slots, active \in BOOLEAN : SendMediaSubscription(r, active)
    \/ \E r \in Slots : SendMediaQuota(r, TRUE)
    \/ \E r \in Slots, dbOk \in BOOLEAN, t \in Times : PipelineLog(r, TRUE, dbOk, t)
    \/ \E r \in Slots, outcome \in {"ok", "timeout", "error"} : PipelineSend(r, outcome)
    \/ \E r \in Slots, dbOk \in BOOLEAN, t \in Times : PipelineMarkFailed(r, dbOk, t)
    \/ \E r \in Slots : PipelineSleep(r)
    \/ \E r \in Slots, dbOk \in BOOLEAN : PipelineUpdate(r, dbOk)
    \/ \E r \in Slots, dbOk \in BOOLEAN : PipelineMigrate(r, dbOk)
    \/ \E i \in DOMAIN events, w \in WaIds, code \in StatusCodes : EmitStatusUpdate(i, w, code)
    \/ \E i \in DOMAIN events, w \in WaIds, rtype \in ReceiptTypes : EmitReceiptUpdate(i, w, rtype)
    \/ \E i \in DOMAIN events : EventLookup(i)
    \/ \E i \in DOMAIN events : EventDelay(i)
    \/ \E i \in DOMAIN events, t \in Times, timelineOk \in BOOLEAN :
          EventUpdate(i, t, timelineOk)

\* The tenant's subscription has room for the message
LedgerInit == Init /\ subscription = [t \in Tenants |-> MaxQuota]

LedgerSpec == LedgerInit /\ [][LedgerNext]_vars

\* Connection Supervisor: qrcode and reset requests, the transport's connection
\* events, the reconnect timers and the Scheduler's callbacks, for one tenant
ConnNext ==
    \/ \E s \in SockIds : SockQr(s)
    \/ \E s \in SockIds : SockOpen(s)
    \/ \E s \in SockIds, loggedOut \in BOOLEAN : SockClose(s, loggedOut)
    \/ \E s \in SockIds : PromiseTimeout(s)
    \/ \E s \in SockIds : \E j \in TimerSlots : TimerFire(s, j)
    \/ \E s \in SockIds : \E j \in TimerSlots : \E saveOk \in BOOLEAN :
           TimerReconnect(s, j, saveOk)
    \/ \E s \in SockIds : \E j \in TimerSlots : TimerMake(s, j)
    \/ QrStart
    \/ \E loggedOut \in BOOLEAN : QrCleanup(loggedOut)
    \/ QrDelete
    \/ QrLoop
    \/ QrMake
    \/ QrSettled
    \/ \E logoutOk \in BOOLEAN, loggedOut \in BOOLEAN : ResetStart(logoutOk, loggedOut)
    \/ ResetDelete
    \/ \E k \in DOMAIN ticks : TickStart(k)
    \/ \E k \in DOMAIN ticks : TickMake(k)
    \/ \E k \in DOMAIN ticks : TickSettled(k)
    \/ \E k \in DOMAIN ticks : TickSend(k)

ConnSpec == LedgerInit /\ [][ConnNext]_vars

\* generateQRCode requests, the handles they and the reconnect timers make,
\* the open branch split at its await saveCreds(), repeated close events of
\* one handle
ReconnectNext ==
    \/ \E s \in SockIds : SockQr(s)
    \/ \E s \in SockIds : SockOpening(s)
    \/ \E s \in SockIds : \E saveOk \in BOOLEAN : SockSaved(s, saveOk)
    \/ \E s \in SockIds, loggedOut \in BOOLEAN : SockClose(s, loggedOut)
    \/ \E s \in SockIds, loggedOut \in BOOLEAN : SockCloseAgain(s, loggedOut)
    \/ \E s \in SockIds : PromiseTimeout(s)
    \/ \E s \in SockIds : \E j \in TimerSlots : TimerFire(s, j)
    \/ \E s \in SockIds : \E j \in TimerSlots : \E saveOk \in BOOLEAN :
           TimerReconnect(s, j, saveOk)
    \/ \E s \in SockIds : \E j \in TimerSlots : TimerMake(s, j)
    \/ QrStart
    \/ \E loggedOut \in BOOLEAN : QrCleanup(loggedOut)
    \/ QrDelete
    \/ QrLoop
    \/ QrMake
    \/ QrSettled

ReconnectSpec == LedgerInit /\ [][ReconnectNext]_vars

\* Two tenants whose connections have each returned the same id (SharedId)
\* for a message: t1's row was sent by the Scheduler, which writes no
\* timeline record, t2's by the Send Pipeline, which wrote the record of the id
TwoTenants == {"t1", "t2"}

SharedId == 1

TenantInit ==
    /\ now = 1
    /\ media_messages =
          <<[NewLedgerRow("t1", "sent", 1) EXCEPT !.whatsapp_message_id = SharedId],
            [NewLedgerRow("t2", "sent", 1) EXCEPT !.whatsapp_message_id = SharedId]>>
    /\ report_time = [w \in WaIds |->
                         IF w = SharedId THEN MigrateUpsert(NoRow, "t2", "sent", 1)
                         ELSE NoRow]
    /\ subscription = [t \in Tenants |-> MaxQuota]
    /\ issued = [w \in WaIds |-> IF w = SharedId THEN "t2" ELSE ""]
    /\ req = [r \in {1} |-> IdleReq]
    /\ calls = 0
    /\ events = [i \in 1..MaxEvents |-> IdleEvent]
    /\ emittedFor = [w \in WaIds |-> "none"]
    /\ replayed = FALSE
    /\ instances = NoInstance
    /\ socks = [s \in SockIds |-> UnusedSock]
    /\ qrReq = IdleQr
    /\ ticks = [k \in 1..MaxTicks |-> IdleTick]
    /\ resetReq = "idle"

\* Status and receipt events on the two connections and their handlers
TenantNext ==
    \/ \E i \in DOMAIN events, a \in TwoTenants, w \in WaIds,
          kind \in {"status", "receipt"}, code \in StatusCodes, rtype \in ReceiptTypes :
          EmitOnConnection(i, a, w, kind, code, rtype)
    \/ \E i \in DOMAIN events : EventLookup(i)
    \/ \E i \in DOMAIN events : EventDelay(i)
    \/ \E i \in DOMAIN events, t \in Times, timelineOk \in BOOLEAN :
          EventUpdate(i, t, timelineOk)

TenantSpec == TenantInit /\ [][TenantNext]_vars

\* generateQRCode requests, one after the other, with initializeSock failing
\* before or after it has made a handle, and the transport's connection events
QrNext ==
    \/ QrStart
    \/ \E loggedOut \in BOOLEAN : QrCleanup(loggedOut)
    \/ QrDelete
    \/ QrLoop
    \/ QrMake
    \/ QrAuthFailed
    \/ QrSettled
    \/ \E s \in SockIds : SockQr(s)
    \/ \E s \in SockIds : SockOpen(s)
    \/ \E s \in SockIds, loggedOut \in BOOLEAN : SockClose(s, loggedOut)
    \/ \E s \in SockIds : PromiseTimeout(s)

QrSpec == LedgerInit /\ [][QrNext]_vars

\* generateQRCode requests, the transport's connection events and the
\* reconnect timers. Every step the program or a timer takes on its own is
\* weakly fair, and so are the transport's events of a live handle; a new
\* generateQRCode request (QrStart) is the client's choice and is not.
SupervisorNext ==
    \/ QrStart
    \/ \E loggedOut \in BOOLEAN : QrCleanup(loggedOut)
    \/ QrDelete
    \/ QrLoop
    \/ QrMake
    \/ QrAuthFailed
    \/ QrSettled
    \/ \E s \in SockIds : SockQr(s)
    \/ \E s \in SockIds : SockOpen(s)
    \/ \E s \in SockIds, loggedOut \in BOOLEAN : SockClose(s, loggedOut)
    \/ \E s \in SockIds : PromiseTimeout(s)
    \/ \E s \in SockIds : \E j \in TimerSlots : TimerFire(s, j)
    \/ \E s \in SockIds : \E j \in TimerSlots : \E saveOk \in BOOLEAN :
           TimerReconnect(s, j, saveOk)
    \/ \E s \in SockIds : \E j \in TimerSlots : TimerMake(s, j)

SupervisorFairness ==
    /\ WF_vars(\E loggedOut \in BOOLEAN : QrCleanup(loggedOut))
    /\ WF_vars(QrDelete)
    /\ WF_vars(QrLoop)
    /\ WF_vars(QrMake \/ QrAuthFailed)
    /\ WF_vars(QrSettled)
    /\ WF_vars(\E s \in SockIds :
                  SockQr(s) \/ SockOpen(s) \/ SockClose(s, TRUE) \/ SockClose(s, FALSE))
    /\ WF_vars(\E s \in SockIds : PromiseTimeout(s))
    /\ WF_vars(\E s \in SockIds : \E j \in TimerSlots : TimerFire(s, j))
    /\ WF_vars(\E s \in SockIds : \E j \in TimerSlots : \E saveOk \in BOOLEAN :
                  TimerReconnect(s, j, saveOk))
    /\ WF_vars(\E s \in SockIds : \E j \in TimerSlots : TimerMake(s, j))

SupervisorSpec == LedgerInit /\ [][SupervisorNext]_vars /\ SupervisorFairness

\* The ledger after saveScheduledMessage calls of an earlier run of the
\* server: up to MaxSched pending rows with a schedule_time each
ScheduledTables ==
    UNION {[1..n -> {ScheduledRow(t, at) : t \in Tenants, at \in Times}] : n \in 1..MaxSched}

\* The server starts with scheduled messages in the ledger and an empty registry
SchedInit ==
    /\ InitState
    /\ subscription = [t \in Tenants |-> MaxQuota]
    /\ media_messages \in ScheduledTables

\* Scheduler: the cron callback with its sweep, one callback at a time, the
\* handles its initializeSock calls make, and the transport's connection events
SchedNext ==
    \/ \E k \in {1}, t \in Times :
          \E page \in Orderings(DuePending(t)) : SweepStart(k, t, page)
    \/ \E k \in {1} : TickMake(k)
    \/ \E k \in {1} : TickSettled(k)
    \/ \E k \in {1}, outcome \in {"ok", "error"} : SweepAttempt(k, outcome)
    \/ \E k \in {1}, dbOk \in BOOLEAN : SweepMark(k, dbOk)
    \/ \E k \in {1}, dbOk \in BOOLEAN : SweepMarkFailed(k, dbOk)
    \/ \E k \in {1} : SweepPause(k)
    \/ \E s \in SockIds : SockQr(s)
    \/ \E s \in SockIds : SockOpen(s)
    \/ \E s \in SockIds, loggedOut \in BOOLEAN : SockClose(s, loggedOut)
    \/ \E s \in SockIds : PromiseTimeout(s)

SchedSpec == SchedInit /\ [][SchedNext]_vars

\* Scheduler with overlapping callbacks: cron.schedule starts a callback every
\* 2 s whether or not the one before has returned, so up to MaxTicks sweeps
\* run at a time; no ledger write fails
OverlapNext ==
    \/ \E k \in DOMAIN ticks, t \in Times :
          \E page \in Orderings(DuePending(t)) : SweepStart(k, t, page)
    \/ \E k \in DOMAIN ticks : TickMake(k)
    \/ \E k \in DOMAIN ticks : TickSettled(k)
    \/ \E k \in DOMAIN ticks, outcome \in {"ok", "error"} : SweepAttempt(k, outcome)
    \/ \E k \in DOMAIN ticks : SweepMark(k, TRUE)
    \/ \E k \in DOMAIN ticks : SweepPause(k)
    \/ \E s \in SockIds : SockOpen(s)

OverlapSpec == SchedInit /\ [][OverlapNext]_vars

\* Two sendMedia requests of one tenant in progress at a time (two HTTP
\* requests whose handlers interleave at their awaits): text messages on a
\* connected handle, no query failing, the transport accepting or rejecting
ConcurrentNext ==
    \/ \E r \in Slots, t \in Tenants, n \in 1..MaxRows :
          SendMediaStart(r, t, n, FALSE, "ready")
    \/ \E r \in Slots : SendMediaSubscription(r, TRUE)
    \/ \E r \in Slots : SendMediaQuota(r, TRUE)
    \/ \E r \in Slots, t \in Times : PipelineLog(r, TRUE, TRUE, t)
    \/ \E r \in Slots, outcome \in {"ok", "error"} : PipelineSend(r, outcome)
    \/ \E r \in Slots, t \in Times : PipelineMarkFailed(r, TRUE, t)
    \/ \E r \in Slots : PipelineSleep(r)
    \/ \E r \in Slots : PipelineUpdate(r, TRUE)
    \/ \E r \in Slots : PipelineMigrate(r, TRUE)

\* The server with an empty ledger, a subscription of up to MaxQuota
\* messages, and room for two requests at a time
ConcurrentInit ==
    /\ now = 1
    /\ media_messages = <<>>
    /\ report_time = [w \in WaIds |-> NoRow]
    /\ subscription \in [Tenants -> 1..MaxQuota]
    /\ issued = [w \in WaIds |-> ""]
    /\ req = [r \in 1..MaxCalls |-> IdleReq]
    /\ calls = 0
    /\ events = [i \in 1..MaxEvents |-> IdleEvent]
    /\ emittedFor = [w \in WaIds |-> "none"]
    /\ replayed = FALSE
    /\ instances = NoInstance
    /\ socks = [s \in SockIds |-> UnusedSock]
    /\ qrReq = IdleQr
    /\ ticks = [k \in 1..MaxTicks |-> IdleTick]
    /\ resetReq = "idle"

ConcurrentSpec == ConcurrentInit /\ [][ConcurrentNext]_vars

\* The tenant connects by generateQRCode; then one sendMedia request whose
\* body carries a scheduleTime (text messages, no query failing) runs next to
\* the Scheduler's sweep.  req.sock is the handle of the tenant's entry.
SendMediaScheduled(r, t, n, scheduleTime) ==
    /\ Usable
    /\ calls = 0
    /\ SendMediaStartAt(r, t, n, FALSE, "ready", scheduleTime)

ImmediateNext ==
    \/ QrStart
    \/ QrLoop
    \/ QrMake
    \/ QrSettled
    \/ \E s \in SockIds : SockOpen(s)
    \/ \E r \in Slots, t \in Tenants, n \in 1..MaxRows :
          \E scheduleTime \in ScheduleTimes : SendMediaScheduled(r, t, n, scheduleTime)
    \/ \E r \in Slots : SendMediaSubscription(r, TRUE)
    \/ \E r \in Slots : SendMediaQuota(r, TRUE)
    \/ \E r \in Slots, t \in Times : PipelineLog(r, TRUE, TRUE, t)
    \/ \E r \in Slots, outcome \in {"ok", "error"} : PipelineSend(r, outcome)
    \/ \E r \in Slots, t \in Times : PipelineMarkFailed(r, TRUE, t)
    \/ \E r \in Slots : PipelineSleep(r)
    \/ \E r \in Slots : PipelineUpdate(r, TRUE)
    \/ \E r \in Slots : PipelineMigrate(r, TRUE)
    \/ \E k \in {1}, t \in Times :
          \E page \in Orderings(DuePending(t)) : SweepStart(k, t, page)
    \/ \E k \in {1}, outcome \in {"ok", "error"} : SweepAttempt(k, outcome)
    \/ \E k \in {1} : SweepMark(k, TRUE)
    \/ \E k \in {1} : SweepPause(k)

ImmediateSpec == LedgerInit /\ [][ImmediateNext]_vars

\* Tenants whose connection cannot be re-established: initializeSock(instanceId)
\* of the Scheduler rejects for them and their group is skipped (continue)
DeadTenants == {"t2"}

\* The ledger with up to MaxSched scheduled messages of tenant t1 and, after
\* them, LIMIT - 1 or LIMIT pending messages of a dead tenant that were due
\* at time 1
StarvedTables ==
    {head \o [i \in 1..n |-> ScheduledRow("t2", 1)] :
        head \in UNION {[1..m -> {ScheduledRow("t1", at) : at \in Times}] : m \in 1..MaxSched},
        n \in {LIMIT - 1, LIMIT}}

\* ORDER BY schedule_time ASC as the engine returns it when it breaks ties
\* by the primary key: the pending rows scheduled at 1, then those at 2, ...
\* up to t, each group by ascending id
RECURSIVE OrderedPending(_)
OrderedPending(t) ==
    IF t = 0
    THEN <<>>
    ELSE OrderedPending(t - 1) \o
         SelectSeq([i \in 1..Len(media_messages) |-> i],
                   LAMBDA id : /\ media_messages[id].message_status = "pending"
                               /\ media_messages[id].schedule_time = t)

OfLiveTenant(id) == media_messages[id].instance_id \notin DeadTenants

\* The cron callback with its groups: getPendingScheduledMessages, group by
\* instance_id; the groups of dead tenants end at continue, the messages of
\* t1 are left for the message loop (after initializeSock when t1's entry
\* is not usable)
GroupSweepStart(k, t) ==
    LET pendingMessages == FirstRows(OrderedPending(t))
        messages == SelectSeq(pendingMessages, OfLiveTenant)
    IN  /\ FreeTick(k)
        /\ ReadClock(t)
        /\ ticks' = [ticks EXCEPT ![k] =
              IF messages = <<>>
              THEN IdleTick
              ELSE [IdleTick EXCEPT !.page = messages, !.pos = 1,
                                    !.pc = IF Usable THEN "send" ELSE "auth"]]
        /\ UNCHANGED <<media_messages, report_time, subscription, issued, req, calls,
                       events, hist, instances, socks, qrReq, resetReq>>

\* The server with t1 connected (the state its open handler leaves: entry
\* connected on handle 1, connection promise resolved) and the scheduled
\* messages in the ledger
StarvedInit ==
    /\ now = 1
    /\ media_messages \in StarvedTables
    /\ report_time = [w \in WaIds |-> NoRow]
    /\ subscription = [t \in Tenants |-> MaxQuota]
    /\ issued = [w \in WaIds |-> ""]
    /\ req = [r \in {1} |-> IdleReq]
    /\ calls = 0
    /\ events = [i \in 1..MaxEvents |-> IdleEvent]
    /\ emittedFor = [w \in WaIds |-> "none"]
    /\ replayed = FALSE
    /\ instances = [present |-> TRUE, sock |-> 1, status |-> "connected", qrCode |-> FALSE]
    /\ socks = [s \in SockIds |->
                  IF s = 1
                  THEN [UnusedSock EXCEPT !.state = "open", !.saving = "done",
                                          !.hasResolved = TRUE, !.result = "connected",
                                          !.promise = "resolved"]
                  ELSE UnusedSock]
    /\ qrReq = IdleQr
    /\ ticks = [k \in 1..MaxTicks |-> IdleTick]
    /\ resetReq = "idle"

\* The sweeps run one at a time, the connection of t1 stays open and no
\* ledger write fails.  The cron tick and every step of a sweep are weakly fair.
StarvedNext ==
    \/ \E k \in {1}, t \in Times : GroupSweepStart(k, t)
    \/ \E k \in {1}, outcome \in {"ok", "error"} : SweepAttempt(k, outcome)
    \/ \E k \in {1} : SweepMark(k, TRUE)
    \/ \E k \in {1} : SweepPause(k)

StarvedFairness ==
    /\ WF_vars(\E t \in Times : GroupSweepStart(1, t))
    /\ WF_vars(\E outcome \in {"ok", "error"} : SweepAttempt(1, outcome))
    /\ WF_vars(SweepMark(1, TRUE))
    /\ WF_vars(SweepPause(1))

StarvedSpec == StarvedInit /\ [][StarvedNext]_vars /\ StarvedFairness

\* ------------------------------------------------------------------ claims

LedgerStatus(id) == media_messages[id].message_status

\* C1: once a ledger message is sent, delivered, read or failed, no later
\* step (in particular no status event, whatever its raw code) moves its
\* status back to pending.
C1_NeverBackToPending ==
    [][\A id \in RowIds :
          LedgerStatus(id) \in {"sent", "delivered", "read", "failed"}
              => media_messages'[id].message_status # "pending"]_vars

\* C2: failed is terminal: once a ledger message has status failed, no later
\* operation changes its status to any other value.
C2_FailedIsTerminal ==
    [][\A id \in RowIds :
          LedgerStatus(id) = "failed" => media_messages'[id].message_status = "failed"]_vars

ChainRank(status) ==
    CASE status = "sent" -> 1
      [] status = "delivered" -> 2
      [] status = "read" -> 3
      [] OTHER -> 0

\* C3: within the chain sent -> delivered -> read the stored status only
\* moves forward, for every order in which status and receipt events of one
\* transport message id are processed.
C3_NoRegressionInChain ==
    [][\A id \in RowIds :
          (ChainRank(LedgerStatus(id)) > 0 /\ ChainRank(media_messages'[id].message_status) > 0)
              => ChainRank(media_messages'[id].message_status) >= ChainRank(LedgerStatus(id))]_vars

\* The timeline record of the row already has the timestamp of this status
HasTimestampOf(dbId, newStatus) ==
    LET w == media_messages[dbId].whatsapp_message_id
    IN  /\ w # 0
        /\ newStatus # "pending"
        /\ report_time[w].present
        /\ report_time[w][StatusField(newStatus)] # 0

\* C4: replaying a status event is idempotent on the timeline: when the
\* timeline record of the message already has the timestamp of status S,
\* the handler's write of another event with status S leaves every
\* timestamp field of every timeline record unchanged.
C4_ReplayIdempotent ==
    [][\A i \in DOMAIN events :
          (/\ events[i].pc = "update"
           /\ events'[i].pc = "idle"
           /\ HasTimestampOf(events[i].dbId, events[i].newStatus))
              => report_time' = report_time]_vars

\* C4 witness: a replay was applied at a later time than the stored timestamp
C4_ReplayApplied ==
    /\ replayed
    /\ \A i \in DOMAIN events : events[i].pc = "idle"

\* C5: every timestamp field of a timeline record is write-once under all
\* writers: once non-null it is never overwritten.
C5_TimelineWriteOnce ==
    [][\A w \in WaIds : \A f \in TimeFields :
          report_time[w][f] # 0 => report_time'[w][f] = report_time[w][f]]_vars

\* C6: whenever initializeSock makes a new transport handle for a tenant, the
\* tenant has no registry entry at that moment (an existing one was removed
\* first), whoever the caller is.
C6_EntryRemovedBeforeNewHandle ==
    [][\A s \in SockIds :
          (socks[s].state = "unused" /\ socks'[s].state # "unused")
              => ~instances.present]_vars

\* C7: a tenant has at most one live transport handle at every moment.
C7_AtMostOneLiveHandle == Cardinality(LiveSocks) <= 1

\* C8: when remaining = purchased - consumed is <= 0 or the batch is larger
\* than remaining, sendMedia ends the request at the quota check as rejected,
\* that step writes nothing, and a rejected request has created no ledger
\* row and attempted no transport send.
C8_QuotaRejectsWholeBatch ==
    /\ [](\A r \in Slots :
            req[r].result = "quota_rejected"
                => req[r].pc = "done" /\ req[r].rows = {} /\ ~req[r].attempted)
    /\ [][\A r \in Slots :
            (/\ req[r].pc = "count"
             /\ req'[r].pc # "count"
             /\ \/ subscription[req[r].tenant] - MessageCount(req[r].tenant) <= 0
                \/ req[r].n > subscription[req[r].tenant] - MessageCount(req[r].tenant))
                => /\ req'[r].pc = "done"
                   /\ req'[r].result = "quota_rejected"
                   /\ UNCHANGED <<media_messages, report_time, issued>>]_vars

\* C8 witness: a batch larger than a positive remaining count was rejected
\* while the tenant already had rows in the ledger
C8_BatchRejected ==
    \E r \in Slots :
        /\ req[r].result = "quota_rejected"
        /\ req[r].remaining > 0
        /\ req[r].n > req[r].remaining
        /\ MessageCount(req[r].tenant) > 0

\* C9: no delivered / read event of an accepted message is lost: once the
\* transportMessageId is persisted and no handler is running, a row for
\* whose id the transport emitted delivered / read events (and no other)
\* has status delivered or read.
C9_NoReceiptLost ==
    (\A i \in DOMAIN events : events[i].pc = "idle")
        => \A id \in RowIds :
              LET w == media_messages[id].whatsapp_message_id
              IN  (w # 0 /\ emittedFor[w] = "delivery")
                      => LedgerStatus(id) \in {"delivered", "read"}

\* C10: when a batch has run to its end, every row of it whose processing
\* raised an error (and whose failed-status write did not itself fail) is
\* marked failed.
C10_ErrorsMarkedFailed ==
    \A r \in Slots :
        (req[r].pc = "done" /\ req[r].result = "success")
            => \A id \in req[r].errRows \ req[r].markLost : LedgerStatus(id) = "failed"

\* The rows of request r that its call moved from pending to sent with the
\* transport message id recorded
SentRows(r) ==
    {id \in req[r].rows : /\ LedgerStatus(id) = "sent"
                          /\ media_messages[id].whatsapp_message_id # 0}

\* C11: the value sendMessagesOneAtATime returns equals the number of messages
\* of the batch whose ledger row the call moved from pending to sent with the
\* transport message id recorded.
C11_ReturnCountsSentRows ==
    \A r \in Slots :
        req[r].pc = "done" /\ req[r].result = "success"
            => req[r].sent = Cardinality(SentRows(r))

\* A step of request r that calls sock.sendMessage
SendAttempt(r) ==
    /\ req[r].pc \in {"media", "text"}
    /\ req'[r] # req[r]

\* C12: between the last send attempt for a message and the first send attempt
\* for the next message that is attempted, the pacing sleep has run, whether
\* the earlier message ended sent or failed.
C12_PacingNeverSkipped ==
    [][\A r \in Slots :
          SendAttempt(r) /\ req[r].lastSent # 0 /\ req[r].i # req[r].lastSent
              => req[r].paced]_vars

\* C13: a send attempt that fails with a timeout is retried at most
\* MAX_RETRIES times (at most MAX_RETRIES + 1 attempts) and the message is
\* marked failed when all of them time out; an attempt that fails with any
\* other error is not retried and the message is marked failed; in both cases
\* the batch goes on with the next message.
C13_OnlyTimeoutsRetried ==
    /\ [](\A r \in Slots : req[r].retry <= MAX_RETRIES)
    /\ [][\A r \in Slots :
            /\ PipelineSend(r, "timeout") =>
                  IF req[r].retry < MAX_RETRIES
                  THEN /\ req'[r].retry = req[r].retry + 1
                       /\ req'[r].pc = req[r].pc
                  ELSE req'[r].pc = "markfailed"
            /\ PipelineSend(r, "error") =>
                  /\ req'[r].pc = "markfailed"
                  /\ req'[r].retry = req[r].retry
            /\ (\E t \in Times : PipelineMarkFailed(r, TRUE, t)) =>
                  /\ media_messages'[req[r].dbId].message_status = "failed"
                  /\ req'[r].pc = IF req[r].i < req[r].n THEN "log" ELSE "done"
                  /\ req'[r].i = IF req[r].i < req[r].n THEN req[r].i + 1 ELSE req[r].i
                  /\ req'[r].sent = req[r].sent]_vars

\* A message was marked failed after MAX_RETRIES retries, and the request
\* went on
C13_FailedAfterRetries ==
    \E r \in Slots :
        /\ req[r].retry = MAX_RETRIES
        /\ req[r].pc \in {"log", "done"}
        /\ req[r].dbId \in req[r].errRows
        /\ LedgerStatus(req[r].dbId) = "failed"

\* C16: the sends of one batch are dispatched in the order of the input list:
\* no send attempt is made for a message that precedes the message of an
\* earlier send attempt.
C16_SendsInInputOrder ==
    [][\A r \in Slots : SendAttempt(r) => req[r].i >= req[r].lastSent]_vars

\* All the messages of a batch of MaxRows were sent, the last one last
C16_WholeBatchSent ==
    \E r \in Slots :
        /\ req[r].n = MaxRows
        /\ req[r].lastSent = MaxRows
        /\ Cardinality(SentRows(r)) = MaxRows

\* The timeline records that exist
TimelineIds == {w \in WaIds : report_time[w].present}

\* C14 (scenario B): a send that times out twice and succeeds on the third
\* attempt leaves the message sent, with exactly one ledger row and exactly
\* one timeline record.
C14_ThirdAttemptSucceeds ==
    \A r \in Slots :
        /\ calls = 1
        /\ req[r].pc = "done"
        /\ req[r].n = 1
        /\ req[r].retry = 2
        /\ req[r].errRows = {}
        => /\ req[r].result = "success"
           /\ Len(media_messages) = 1
           /\ req[r].rows = {1}
           /\ LedgerStatus(1) = "sent"
           /\ media_messages[1].whatsapp_message_id = req[r].waId
           /\ TimelineIds = {req[r].waId}
           /\ Cardinality({w \in WaIds : issued[w] # ""}) = 1

\* The request of one message ended after two timeouts and a successful send
C14_SentOnThirdAttempt ==
    \E r \in Slots :
        /\ calls = 1
        /\ req[r].pc = "done"
        /\ req[r].n = 1
        /\ req[r].retry = 2
        /\ req[r].errRows = {}
        /\ req[r].waId # 0

\* C15 (scenario A): with ScenarioRemaining messages left and a connected
\* handle, a text-only batch of three messages that all succeed yields three
\* ledger rows that each went from pending to sent, three timeline records
\* with the sent time set and the delivered and read times null, and the call
\* returns 3.
C15_BatchOfThreeAllSent ==
    \A r \in Slots :
        /\ (req[r].pc \in {"text", "sleep", "update"}
               => LedgerStatus(req[r].dbId) = "pending")
        /\ (/\ req[r].pc = "done"
            /\ req[r].result = "success"
            /\ req[r].n = 3
            /\ req[r].remaining = ScenarioRemaining
            /\ req[r].errRows = {}
            => /\ req[r].sent = 3
               /\ Len(media_messages) = 3
               /\ req[r].rows = 1..3
               /\ \A id \in 1..3 :
                     LET row == media_messages[id]
                         rec == report_time[row.whatsapp_message_id]
                     IN  /\ row.message_status = "sent"
                         /\ row.whatsapp_message_id # 0
                         /\ rec.present
                         /\ rec.sent_time # 0
                         /\ rec.delivered_time = 0
                         /\ rec.read_time = 0
               /\ Cardinality(TimelineIds) = 3)

\* The batch of three ended with every send accepted
C15_ThreeAccepted ==
    \E r \in Slots :
        /\ req[r].pc = "done"
        /\ req[r].result = "success"
        /\ req[r].n = 3
        /\ req[r].remaining = ScenarioRemaining
        /\ req[r].errRows = {}
        /\ req[r].lastSent = 3

\* Some ledger row has the tenant and the transport message id of event e
Tracked(e) ==
    \E id \in RowIds :
        /\ media_messages[id].instance_id = e.instanceId
        /\ media_messages[id].whatsapp_message_id = e.id

C20_UntrackedEventDropped ==
    [][\A i \in DOMAIN events :
          /\ events[i].pc = "lookup"
          /\ ~Tracked(events[i])
          /\ events'[i] # events[i]
          => /\ events'[i] = IdleEvent
             /\ UNCHANGED <<media_messages, report_time>>]_vars

\* An event was emitted for an id that no ledger row has, and its handler
\* has returned
C20_EventDropped ==
    \E w \in WaIds :
        /\ emittedFor[w] # "none"
        /\ \A i \in DOMAIN events : events[i].pc = "idle"
        /\ \A id \in RowIds : media_messages[id].whatsapp_message_id # w
        /\ ~report_time[w].present

\* schedule_time of the ledger row id
ScheduledAt(id) == media_messages[id].schedule_time

\* C17: within one sweep of the Scheduler, of two due pending messages of the
\* same tenant that are both in the fetched page, the one with the earlier
\* schedule_time has its send attempt dispatched before the other's.
C17_EarlierScheduledFirst ==
    \A k \in DOMAIN ticks :
        LET page == ticks[k].page
            tried == ticks[k].tried
        IN  \A a, b \in DOMAIN page :
                /\ ScheduledAt(page[a]) < ScheduledAt(page[b])
                /\ media_messages[page[a]].instance_id = media_messages[page[b]].instance_id
                /\ (\E j \in DOMAIN tried : tried[j] = page[b])
                => \E i \in DOMAIN tried :
                      /\ tried[i] = page[a]
                      /\ \A j \in DOMAIN tried : tried[j] = page[b] => i < j

\* A sweep has dispatched the sends of two messages of different
\* schedule_time, the one with the greater row id first
C17_TwoDispatched ==
    \E k \in DOMAIN ticks :
        /\ Len(ticks[k].tried) >= 2
        /\ ScheduledAt(ticks[k].tried[1]) < ScheduledAt(ticks[k].tried[2])
        /\ ticks[k].tried[1] > ticks[k].tried[2]

\* C18 (scenario D): when a callback finds due pending messages, the tenant
\* has no usable connection, and initializeSock fails, times out or ends
\* without a connected entry, the callback skips the tenant and leaves the
\* messages as they are; only a callback that has made a send attempt for a
\* message writes its status.
C18_SkippedTenantStaysPending ==
    [][/\ \A k \in DOMAIN ticks :
            ticks[k].pc \in {"auth", "await"} /\ ticks'[k] # ticks[k]
                => /\ media_messages' = media_messages
                   /\ (ticks[k].pc = "await"
                        /\ ~(socks[ticks[k].sock].promise = "resolved"
                             /\ instances.present /\ instances.status = "connected")
                        => ticks'[k].pc = "idle")
                   /\ (ticks'[k].pc = "send"
                        => instances.present /\ instances.status = "connected")
       /\ (media_messages' # media_messages
             => \E k \in DOMAIN ticks : ticks[k].pc \in {"mark", "markfailed"})]_vars

\* No handle ever produced a QR code or opened, the promise of an
\* initializeSock call was rejected, its callback has ended, and the due
\* messages are still pending
C18_TenantSkipped ==
    /\ \A k \in DOMAIN ticks : ticks[k].pc = "idle"
    /\ \A s \in SockIds : ~socks[s].hasResolved
    /\ \E s \in SockIds : socks[s].promise = "rejected"
    /\ DuePending(now) # {}
    /\ \A id \in RowIds : LedgerStatus(id) = "pending"

\* ---------------------------------------------------------------- C21 .. C30

\* C21, as the claim states it: a connectionPromise of initializeSock always
\* settles.  While it is pending either its 120 s timeout is still set or the
\* saveCreds() call of its open branch is outstanding.
C21_PendingPromiseCanSettle ==
    \A s \in SockIds :
        socks[s].state # "unused" /\ socks[s].promise = "pending"
            => socks[s].saving \in {"none", "pending"}

\* C22: a close with the logged-out status code leaves the entry disconnected
\* and sets no reconnect timer, and no timer is ever set later for a handle
\* that closed without one; a close with any other code leaves the entry
\* reconnecting and sets the 5 s reconnect timer.
C22_LogoutNeverReconnects ==
    [][\A s \in SockIds :
          /\ SockClose(s, TRUE)
                => instances'.status = "disconnected" /\ socks'[s].timer = "none"
          /\ SockClose(s, FALSE)
                => instances'.status = "reconnecting" /\ socks'[s].timer = "armed"
          /\ socks[s].state = "closed" /\ socks[s].timer = "none"
                => socks'[s].timer = "none"]_vars

\* A handle closed by a logout: the entry is disconnected, no timer is set
C22_ClosedByLogout ==
    \E s \in SockIds :
        /\ socks[s].state = "closed"
        /\ socks[s].promise = "rejected"
        /\ socks[s].timer = "none"
        /\ instances.present /\ instances.sock = s /\ instances.status = "disconnected"

\* C23, as the claim states it: several close events of one handle start at
\* most one reconnect.  The two timers of a handle are never both past the
\* currentSock === sock test.
C23_AtMostOneReconnect ==
    \A s \in SockIds :
        ~(socks[s].timer \in {"saving", "auth"} /\ socks[s].timer2 \in {"saving", "auth"})

\* C28: the promise of initializeSock resolves with { connected: true } only
\* in a step after which the saveCreds() call of the open branch has fulfilled.
C28_ConnectedAfterSaveCreds ==
    [][\A s \in SockIds :
          socks[s].result # "connected" /\ socks'[s].result = "connected"
              => socks'[s].saving = "done"]_vars

\* A promise has resolved with { connected: true }
C28_ResolvedConnected ==
    \E s \in SockIds :
        /\ socks[s].promise = "resolved"
        /\ socks[s].result = "connected"
        /\ socks[s].saving = "done"

\* C25, as the claim states it: after the k-th failed attempt (k = 1, 2)
\* generateQRCode waits 3000 ms * k before attempt k + 1.
C25_BackoffByFailures ==
    qrReq.pc = "loop" /\ qrReq.retryCount >= 1
        => qrReq.waitTime = 3000 * qrReq.retryCount

\* C24, as the claim states it: every step that ends a resetInstance request,
\* the delete or the throw of logout() or end(), leaves the tenant without a
\* registry entry.
C24_ResetLeavesNoEntry ==
    [][(ResetDelete \/ \E loggedOut \in BOOLEAN : ResetStart(FALSE, loggedOut))
          => ~instances'.present]_vars

\* C26, as the claim states it: a send request whose registry entry is not
\* usable is rejected before any ledger write.  A handle without sock.user
\* has not opened, so its entry is not connected: such a request has
\* created no ledger row.
C26_UnusableEntryWritesNothing ==
    \A r \in Slots :
        req[r].pc # "idle" /\ req[r].sock # "ready" => req[r].rows = {}

\* C30, as the claim states it: a scheduled message a sweep has sent ends
\* with the timeline record the Send Pipeline writes on success.  Once the
\* callback has marked the message and pauses before the next one, the
\* report_time row of its whatsapp_message_id exists with sent_time set.
C30_SweepWritesTimeline ==
    \A k \in DOMAIN ticks :
        ticks[k].pc = "pause" /\ ticks[k].waId # 0
            => /\ report_time[ticks[k].waId].present
               /\ report_time[ticks[k].waId].sent_time # 0

\* C29: in updateMessageStatusInDB of the receipt handler the ledger status
\* update and the timeline upsert are atomic.  When the timeline write fails
\* neither table changes and the handler ends by the throw; when it succeeds
\* the row has the new status and its timeline record exists.
C29_LedgerAndTimelineAtomic ==
    [][\A i \in DOMAIN events : \A t \in Times :
          LET dbId == events[i].dbId
              w == media_messages[dbId].whatsapp_message_id
          IN  /\ (EventUpdate(i, t, FALSE) /\ w # 0)
                    => /\ media_messages' = media_messages
                       /\ report_time' = report_time
                       /\ events'[i].pc = "thrown"
              /\ EventUpdate(i, t, TRUE)
                    => /\ media_messages'[dbId].message_status
                             = ValidatedStatus(events[i].newStatus)
                       /\ w # 0 => report_time'[w].present]_vars

\* The handler of an event has ended by the throw of a failed timeline write
C29_TimelineWriteFailed ==
    \E i \in DOMAIN events : events[i].pc = "thrown"

\* C27, as the claim states it: the write of a status or receipt event of
\* tenant a's connection changes no ledger row and no timeline record that
\* belongs to another tenant.
C27_NoCrossTenantWrite ==
    [][\A i \in DOMAIN events :
          (events[i].pc = "update" /\ events'[i].pc # "update")
              => LET a == media_messages[events[i].dbId].instance_id
                 IN  /\ \A id \in RowIds :
                           media_messages[id].instance_id # a
                               => media_messages'[id] = media_messages[id]
                     /\ \A w \in WaIds :
                           report_time[w].present /\ report_time[w].instance_id # a
                               => report_time'[w] = report_time[w]]_vars

\* ---------------------------------------------------------------- C31 .. C40

\* C31, as the claim states it: an entry carries a QR code only while it
\* awaits the scan; an entry whose status is connected or reconnecting has none.
C31_QrCodeOnlyWhileAwaiting ==
    instances.present /\ instances.qrCode
        => instances.status \notin {"connected", "reconnecting"}

\* C35, as the claim states it: a close event of a handle that is not the
\* handle of the tenant's entry leaves the entry unchanged.
C35_StaleCloseLeavesEntry ==
    [][\A s \in SockIds : \A loggedOut \in BOOLEAN :
          (/\ SockClose(s, loggedOut)
           /\ instances.present
           /\ instances.sock # 0
           /\ instances.sock # s)
              => instances' = instances]_vars

\* C36, as the claim states it: every registry entry holds a handle.
C36_EntryHoldsHandle == instances.present => instances.sock # 0

\* A reconnect attempt has been started: initializeSock has been called by a
\* reconnect timer or by the retry loop of generateQRCode
ReconnectStarted ==
    \/ \E s \in SockIds : \E j \in TimerSlots : socks[s][j] = "auth"
    \/ qrReq.pc = "auth"

\* C37, as the claim states it: an entry that is 'reconnecting' does not stay
\* so forever; a reconnect attempt is started, or the entry is removed or
\* gets another status.
C37_ReconnectingEnds ==
    (instances.present /\ instances.status = "reconnecting")
        ~> (\/ ~instances.present
            \/ instances.status # "reconnecting"
            \/ ReconnectStarted)

\* C40, as the claim states it: once the message loop of a sweep runs, no
\* failure while one message is processed ends the sweep before the messages
\* after it have had their turn.
C40_FailureKeepsSweepGoing ==
    [][\A k \in DOMAIN ticks :
          (/\ ticks[k].pc \in {"send", "mark", "markfailed", "pause"}
           /\ ticks[k].pos < Len(ticks[k].page))
              => ticks'[k].pc # "idle"]_vars

\* C32, as the claim states it: when sendMessagesOneAtATime has returned, no
\* ledger row the call created is still pending.
C32_NoRowLeftPending ==
    \A r \in Slots :
        (req[r].pc = "done" /\ req[r].result = "success")
            => \A id \in req[r].rows : LedgerStatus(id) # "pending"

\* C33, as the claim states it: no message is handed to the transport by two
\* sweeps that run at the same time.
C33_OneSweepPerMessage ==
    \A k1, k2 \in DOMAIN ticks :
        k1 # k2 =>
            \A a \in DOMAIN ticks[k1].tried : \A b \in DOMAIN ticks[k2].tried :
                ticks[k1].tried[a] # ticks[k2].tried[b]

\* C39, as the claim states it: the ledger rows of a tenant never exceed the
\* purchased count, whatever the interleaving of its sendMedia requests.
C39_RowsWithinQuota ==
    \A t \in Tenants : MessageCount(t) <= subscription[t]

\* The rows of request r for which sock.sendMessage of the Send Pipeline has
\* returned a transport message id
PipelineSent(r) ==
    {id \in req[r].rows \ req[r].errRows :
        ~(id = req[r].dbId /\ req[r].pc \in {"media", "text", "markfailed"})}

\* C34, as the claim states it: the Scheduler never gets a transport message
\* id for a message that the Send Pipeline has sent itself.
C34_NotSentByBoth ==
    \A k \in DOMAIN ticks : \A r \in Slots :
        (ticks[k].pc = "mark" /\ ticks[k].waId # 0)
            => ticks[k].page[ticks[k].pos] \notin PipelineSent(r)

\* C38, as the claim states it: when t1's connection is usable and its
\* scheduled message is due and pending, the message is eventually dispatched
\* (it leaves pending), whatever other tenants have pending.
C38_DueMessageDispatched ==
    (/\ Usable
     /\ media_messages[1].message_status = "pending"
     /\ media_messages[1].schedule_time <= now)
        ~> (media_messages[1].message_status # "pending")
====
